---- MODULE Spec2Model ----
(***************************************************************************)
(* Ladder pricing, Martingale sizing, the candle-by-candle backtest and    *)
(* the live order/fill bookkeeping of the Binance auto rebalance bot.      *)
(*                                                                         *)
(* Python floats are modelled as exact rationals [n, d] in lowest terms,   *)
(* so every equality below is an equality of real numbers; the rounding    *)
(* error of IEEE doubles is not modelled.                                  *)
(***************************************************************************)
EXTENDS Integers, Sequences, FiniteSets, TLC

VARIABLES
    mode,               \* main.py --mode: "backtest" or "live"
    config,             \* Strategy.config['ladder_config']
    ladders,            \* Strategy.ladders
    status_moves,       \* the assignments to ladder['status'] made by the last
                        \* step, as <<list position, old status, new status>>
    current_price,      \* argument of the last update_prices call
    position_size,      \* result of the last calculate_position_size call
    profit_details,     \* the last calculate_profit call: the fee rate of
                        \* the calculator, the arguments and the result
    bt_pc,              \* Backtester.run: "init", "running", "raised" or,
                        \* once it has returned its report, "done"
    exception,          \* the exception run() raised ("IndexError",
                        \* "KeyError"), "none" so far
    row,                \* the row of Backtester.data read last: its index
                        \* (timestamp), low, high and close
    capital,            \* Backtester.capital
    active_ladders,     \* Backtester.run local list of open positions
    trades,             \* Backtester.trades
    portfolio_value,    \* Backtester.portfolio_value
    report,             \* the dict Backtester.run returned
    active_orders,      \* OrderManager.active_orders, in insertion order
    orders_created,     \* number of orders the exchange has accepted
    sequential_state,   \* OrderManager._sequential_state of the strategy
    now,                \* time.time(), in seconds since the start
    positions,          \* Portfolio.positions
    capital_allocated,  \* Portfolio.capital_allocated
    capital_free,       \* Portfolio.capital_free
    trades_history      \* Portfolio.trades_history

stratVars == <<config, ladders, status_moves, current_price>>
btVars == <<bt_pc, exception, row, capital, active_ladders, trades, portfolio_value, report>>
omVars == <<active_orders, orders_created>>
seqVars == <<sequential_state, now>>
pfVars == <<positions, capital_allocated, capital_free, trades_history>>

vars == <<mode, config, ladders, status_moves, current_price, position_size, profit_details,
          bt_pc, exception,
          row, capital, active_ladders, trades, portfolio_value, report, active_orders,
          orders_created, sequential_state, now,
          positions, capital_allocated, capital_free, trades_history>>

----------------------------------------------------------------------------
(* Exact rational arithmetic standing for Python float arithmetic.         *)

RECURSIVE GCD(_, _)
GCD(a, b) == IF b = 0 THEN a ELSE GCD(b, a % b)

Abs(x) == IF x < 0 THEN -x ELSE x

\* n/d in lowest terms with a positive denominator (d # 0)
Rat(n, d) ==
    LET g == GCD(Abs(n), Abs(d))
        s == IF d < 0 THEN -1 ELSE 1
    IN  [n |-> s * (n \div g), d |-> s * (d \div g)]

Zero == [n |-> 0, d |-> 1]
One == [n |-> 1, d |-> 1]

\* a dict key that has not been assigned yet (no 'buy_price' before update_prices)
Absent == [n |-> 0, d |-> 0]

RAdd(a, b) ==
    LET g == GCD(a.d, b.d)
    IN  Rat(a.n * (b.d \div g) + b.n * (a.d \div g), (a.d \div g) * b.d)

RNeg(a) == [n |-> -a.n, d |-> a.d]

RSub(a, b) == RAdd(a, RNeg(b))

\* cross-reduced product: no intermediate value exceeds the result
RMul(a, b) ==
    LET g1 == GCD(Abs(a.n), b.d)
        g2 == GCD(Abs(b.n), a.d)
    IN  IF a.n = 0 \/ b.n = 0 THEN Zero
        ELSE [n |-> (a.n \div g1) * (b.n \div g2),
              d |-> (a.d \div g2) * (b.d \div g1)]

\* b # 0
RInv(b) == IF b.n < 0 THEN [n |-> -b.d, d |-> -b.n] ELSE [n |-> b.d, d |-> b.n]

RDiv(a, b) == RMul(a, RInv(b))

\* a - b has the sign of this integer (denominators are positive): the
\* integer parts decide, or else the fractional parts ra/a.d and rb/b.d,
\* which are in the order opposite to that of b.d/rb and a.d/ra; no
\* intermediate value exceeds the operands
RECURSIVE Cmp(_, _)
Cmp(a, b) ==
    LET qa == a.n \div a.d
        qb == b.n \div b.d
        ra == a.n % a.d
        rb == b.n % b.d
    IN  IF qa # qb THEN (IF qa < qb THEN -1 ELSE 1)
        ELSE IF ra = 0 \/ rb = 0 THEN ra - rb
        ELSE Cmp([n |-> b.d, d |-> rb], [n |-> a.d, d |-> ra])

RLt(a, b) == Cmp(a, b) < 0
RLe(a, b) == Cmp(a, b) <= 0
RGe(a, b) == RLe(b, a)
RGt(a, b) == RLt(b, a)

RInt(k) == [n |-> k, d |-> 1]

RECURSIVE Pow2(_)
Pow2(k) == IF k <= 0 THEN 1 ELSE 2 * Pow2(k - 1)

----------------------------------------------------------------------------
(* Bounds and the inputs the model draws from.                             *)

\* largest ladder_config['ladders'] tried
MaxLadders == 10

\* the Fibonacci weights of the shipped strategy configurations
FIB == <<1, 1, 2, 3, 5, 8, 13, 21, 34, 55, 89, 144, 233>>

\* a non-Fibonacci weight sequence
FLAT == <<2, 1, 1, 1, 1, 1, 1, 1, 1, 1, 1, 1, 1>>

WeightSeqs == {FIB, FLAT}

\* ladder_config['base_gap']: 0, 0.5%, 0.8%, 3.8% (shipped), 25% and 120%
BaseGaps == {[n |-> 0, d |-> 1], Rat(5, 1000), Rat(8, 1000), Rat(38, 1000), Rat(1, 4), Rat(6, 5)}

\* ladder_config['unit_size_<coin>']
UnitSizes == {Rat(1, 100), Rat(3, 1)}

\* reference prices handed to update_prices
Prices == {0, 100}

PlanConfigs ==
    [base_gap : BaseGaps, fibonacci : WeightSeqs,
     ladders : 0..MaxLadders, unit_size : UnitSizes]

----------------------------------------------------------------------------
(* Strategy._calculate_ladders                                             *)

\* line 40: gap = base_gap * fib
Gap(cfg, i) == RMul(cfg.base_gap, RInt(cfg.fibonacci[i + 1]))

\* line 44: stop if buy price would go to zero or negative
Truncates_gt(cumulative_gap) == RGt(cumulative_gap, One)
Truncates(cumulative_gap) == RGe(cumulative_gap, One)

\* line 55
BuyPriceMultiplier(cumulative_gap) == RSub(One, cumulative_gap)

\* line 56
SellPriceMultiplier_nogap(i, cumulative_gap, gap) == RSub(One, cumulative_gap)
SellPriceMultiplier(i, cumulative_gap, gap) ==
    IF i > 0 THEN RSub(One, RSub(cumulative_gap, gap)) ELSE One

\* line 57: Martingale 1, 2, 4, 8, ...
Units_linear(i) == 2 * i
Units(i) == Pow2(i)

\* lines 50-59: the ladder dict of 0-based index i
LadderEntry(i, fib, gap, cumulative_gap) ==
    [level |-> -(i + 1),
     fibonacci |-> fib,
     gap_percent |-> gap,
     cumulative_gap_percent |-> cumulative_gap,
     buy_price_multiplier |-> BuyPriceMultiplier(cumulative_gap),
     sell_price_multiplier |-> SellPriceMultiplier(i, cumulative_gap, gap),
     units |-> Units(i),
     status |-> "pending",
     buy_price |-> Absent,
     sell_price |-> Absent,
     usdt_cost |-> Absent,
     btc_amount |-> Absent]

\* lines 38-61: the loop from index i on, with the running cumulative_gap
RECURSIVE LadderLoop(_, _, _, _)
LadderLoop(cfg, i, cumulative_gap, acc) ==
    IF i >= cfg.ladders THEN acc
    ELSE LET gap == Gap(cfg, i)
             cum == RAdd(cumulative_gap, gap)
         IN  IF Truncates(cum) THEN acc
             ELSE LadderLoop(cfg, i + 1, cum,
                             Append(acc, LadderEntry(i, cfg.fibonacci[i + 1], gap, cum)))

calculate_ladders(cfg) == LadderLoop(cfg, 0, Zero, <<>>)

----------------------------------------------------------------------------
(* Strategy.update_prices                                                  *)

\* lines 69-72
BaseUsdtPerUnit(ls, cfg, p) ==
    RMul(RMul(RInt(p), ls[1].buy_price_multiplier), cfg.unit_size)

\* line 84
UsdtCost(l, base_usdt_per_unit) == RMul(RInt(l.units), base_usdt_per_unit)

\* line 86
BtcAmount_sell(usdt_cost, buy_price, sell_price) == RDiv(usdt_cost, sell_price)
BtcAmount(usdt_cost, buy_price, sell_price) == RDiv(usdt_cost, buy_price)

PricedLadder_rebuilt(l, p, base_usdt_per_unit) ==
    LET buy == RMul(RInt(p), l.buy_price_multiplier)
        sell == RMul(RInt(p), l.sell_price_multiplier)
        priced == [l EXCEPT !.buy_price = buy, !.sell_price = sell,
                            !.status = "pending"]
    IN  IF RLe(buy, Zero) \/ RLe(sell, Zero) THEN priced
        ELSE LET cost == UsdtCost(l, base_usdt_per_unit)
             IN  [priced EXCEPT !.usdt_cost = cost,
                                !.btc_amount = BtcAmount(cost, buy, sell)]

\* lines 75-86: one iteration of the loop
PricedLadder(l, p, base_usdt_per_unit) ==
    LET buy == RMul(RInt(p), l.buy_price_multiplier)
        sell == RMul(RInt(p), l.sell_price_multiplier)
        priced == [l EXCEPT !.buy_price = buy, !.sell_price = sell]
    IN  IF RLe(buy, Zero) \/ RLe(sell, Zero) THEN priced
        ELSE LET cost == UsdtCost(l, base_usdt_per_unit)
             IN  [priced EXCEPT !.usdt_cost = cost,
                                !.btc_amount = BtcAmount(cost, buy, sell)]

\* lines 66-86; self.ladders[0] raises IndexError on an empty plan
update_prices(ls, cfg, p) ==
    [k \in 1..Len(ls) |-> PricedLadder(ls[k], p, BaseUsdtPerUnit(ls, cfg, p))]

\* main.py lines 116-118: the driver prices a strategy outside a backtest run
UpdatePrices ==
    /\ mode = "live"
    /\ Len(ladders) > 0
    /\ \E p \in Prices :
        /\ ladders' = update_prices(ladders, config, p)
        /\ current_price' = RInt(p)
    /\ status_moves' = {}
    /\ UNCHANGED <<mode, seqVars, config, position_size, profit_details, btVars, omVars, pfVars>>

----------------------------------------------------------------------------
(* MartingaleCalculator.calculate_position_size                            *)

\* MartingaleCalculator.__init__ default fee_rate=0.001
fee_rate == Rat(1, 1000)

\* Python int(): truncation toward zero
Trunc(a) == IF a.n >= 0 THEN a.n \div a.d ELSE -((-a.n) \div a.d)

PositionUnits(level) == Pow2(level - 1)

calculate_position_size(level, previous_cost, gap_amount, target_profit) ==
    LET units == PositionUnits(level)
        total_recovery == RAdd(previous_cost, target_profit)
        fee_multiplier == RAdd(One, RMul(RInt(2), fee_rate))
        min_position_value ==
            RDiv(total_recovery, RMul(RDiv(gap_amount, gap_amount), fee_multiplier))
        needed == Trunc(RDiv(min_position_value, gap_amount)) + 1
    IN  [level |-> level,
         units |-> units,
         previous_cost |-> previous_cost,
         target_profit |-> target_profit,
         recommended_units |-> IF units >= needed THEN units ELSE needed]

NoPositionSize ==
    [level |-> 0, units |-> 0, previous_cost |-> Zero,
     target_profit |-> Zero, recommended_units |-> 0]

PreviousCosts == {0, 1000}
GapAmounts == {100}

\* gap_amount = 0 raises ZeroDivisionError; the default target_profit is 10
CalculatePositionSize ==
    /\ \E level \in 1..MaxLadders, pc \in PreviousCosts, ga \in GapAmounts :
        position_size' = calculate_position_size(level, RInt(pc), RInt(ga), RInt(10))
    /\ status_moves' = {}
    /\ UNCHANGED <<mode, seqVars, config, ladders, current_price, profit_details, btVars, omVars,
                   pfVars>>

----------------------------------------------------------------------------
(* MartingaleCalculator.calculate_profit                                   *)

TotalBuyCost_nofee(buy_cost, buy_fee) == buy_cost

\* line 60
TotalBuyCost(buy_cost, buy_fee) == RAdd(buy_cost, buy_fee)

NetSellRevenue_plus(sell_revenue, sell_fee) == RAdd(sell_revenue, sell_fee)

\* line 64
NetSellRevenue(sell_revenue, sell_fee) == RSub(sell_revenue, sell_fee)

\* line 67: (profit / total_buy_cost) * 100 if total_buy_cost > 0 else 0
RoiPercent(profit, total_buy_cost) ==
    IF RGt(total_buy_cost, Zero)
    THEN RMul(RDiv(profit, total_buy_cost), RInt(100))
    ELSE Zero

\* lines 46-78, of a calculator built with fee rate f
calculate_profit(f, buy_price, sell_price, quantity) ==
    LET buy_cost == RMul(buy_price, quantity)
        buy_fee == RMul(buy_cost, f)
        total_buy_cost == TotalBuyCost(buy_cost, buy_fee)
        sell_revenue == RMul(sell_price, quantity)
        sell_fee == RMul(sell_revenue, f)
        net_sell_revenue == NetSellRevenue(sell_revenue, sell_fee)
        profit == RSub(net_sell_revenue, total_buy_cost)
    IN  [buy_cost |-> buy_cost,
         buy_fee |-> buy_fee,
         total_buy_cost |-> total_buy_cost,
         sell_revenue |-> sell_revenue,
         sell_fee |-> sell_fee,
         net_sell_revenue |-> net_sell_revenue,
         profit |-> profit,
         roi_percent |-> RoiPercent(profit, total_buy_cost)]

\* MartingaleCalculator(fee_rate=...): no fee, the default and 0.2 %
FeeRates == {Zero, fee_rate, Rat(2, 1000)}

\* buy and sell prices, quantities
TradePrices == {0, 50000, 51000}
Quantities == {Zero, Rat(1, 10)}

NoProfitDetails ==
    [fee_rate |-> Zero, buy_price |-> Zero, sell_price |-> Zero, quantity |-> Zero,
     result |-> calculate_profit(Zero, Zero, Zero, Zero)]

CalculateProfit ==
    /\ \E f \in FeeRates, bp \in TradePrices, sp \in TradePrices, q \in Quantities :
        profit_details' =
            [fee_rate |-> f, buy_price |-> RInt(bp), sell_price |-> RInt(sp),
             quantity |-> q, result |-> calculate_profit(f, RInt(bp), RInt(sp), q)]
    /\ status_moves' = {}
    /\ UNCHANGED <<mode, seqVars, config, ladders, current_price, position_size, btVars, omVars,
                   pfVars>>

----------------------------------------------------------------------------
(* Strategy: status queries and the cycle reset                            *)

Indices(ls) == [k \in 1..Len(ls) |-> k]

get_pending_ladders_open(ls) ==
    SelectSeq(Indices(ls), LAMBDA k : ls[k].status # "closed")

\* lines 92-94: the pending ladders (as list positions), in list order
get_pending_ladders(ls) ==
    SelectSeq(Indices(ls), LAMBDA k : ls[k].status = "pending")

\* lines 88-90
get_active_ladders(ls) ==
    SelectSeq(Indices(ls), LAMBDA k : ls[k].status = "active")

all_ladders_closed_any(ls) == \E k \in 1..Len(ls) : ls[k].status = "closed"

\* lines 96-99
all_ladders_closed(ls) ==
    /\ \A k \in 1..Len(ls) : ls[k].status # "pending" => ls[k].status = "closed"
    /\ \E k \in 1..Len(ls) : ls[k].status = "closed"

reset_ladders_all(ls) == [k \in 1..Len(ls) |-> [ls[k] EXCEPT !.status = "pending"]]

\* lines 101-108
reset_ladders(ls) ==
    [k \in 1..Len(ls) |->
        IF ls[k].status = "closed" THEN [ls[k] EXCEPT !.status = "pending"]
        ELSE ls[k]]

ResetLadders ==
    /\ mode = "live"
    /\ ladders' = reset_ladders(ladders)
    /\ status_moves' = {<<k, "closed", "pending">> :
                          k \in {m \in 1..Len(ladders) : ladders[m].status = "closed"}}
    /\ UNCHANGED <<mode, seqVars, config, current_price, position_size, profit_details, btVars, omVars, pfVars>>

----------------------------------------------------------------------------
(* Portfolio                                                               *)

\* strategy.config['name'] of the one strategy that is traded
strategy_name == "BTC Conservative"

\* the four fields of a Portfolio as one value
Portfolio(pos, allocated, free, history) ==
    [positions |-> pos, capital_allocated |-> allocated,
     capital_free |-> free, trades_history |-> history]

\* lines 20-25
EmptyStrategyPositions ==
    [ladders |-> <<>>, total_cost |-> Zero, total_quantity |-> Zero]

\* lines 18-43 (the datetime.now() timestamp is left out)
add_position(pf, name, ladder_level, buy_price, quantity, cost) ==
    LET cur == IF name \in DOMAIN pf.positions THEN pf.positions[name]
               ELSE EmptyStrategyPositions
        position == [level |-> ladder_level, buy_price |-> buy_price,
                     quantity |-> quantity, cost |-> cost, status |-> "open",
                     sell_price |-> Absent, profit |-> Absent]
        new == [ladders |-> Append(cur.ladders, position),
                total_cost |-> RAdd(cur.total_cost, cost),
                total_quantity |-> RAdd(cur.total_quantity, quantity)]
    IN  [pf EXCEPT !.positions =
                       [s \in DOMAIN pf.positions \cup {name} |->
                           IF s = name THEN new ELSE pf.positions[s]],
                   !.capital_allocated = RAdd(pf.capital_allocated, cost),
                   !.capital_free = RSub(pf.capital_free, cost)]

\* lines 52-53: list positions of the open positions of a level
OpenAt(pls, ladder_level) ==
    {k \in 1..Len(pls) : pls[k].level = ladder_level /\ pls[k].status = "open"}

Least(S) == CHOOSE k \in S : \A m \in S : k <= m

Released_none(allocated, cost) == allocated

\* line 66: self.capital_allocated -= position['cost']
Released(allocated, cost) == RSub(allocated, cost)

\* lines 45-84
close_position(pf, name, ladder_level, sell_price, quantity) ==
    IF name \notin DOMAIN pf.positions THEN pf
    ELSE LET pls == pf.positions[name].ladders
             open == OpenAt(pls, ladder_level)
         IN  IF open = {} THEN pf
             ELSE LET k == Least(open)
                      revenue == RMul(sell_price, quantity)
                      profit == RSub(revenue, pls[k].cost)
                      trade == [strategy |-> name, level |-> ladder_level,
                                buy_price |-> pls[k].buy_price,
                                sell_price |-> sell_price,
                                quantity |-> quantity, profit |-> profit]
                  IN  [pf EXCEPT
                         !.positions[name].ladders[k] =
                             [pls[k] EXCEPT !.status = "closed",
                                            !.sell_price = sell_price,
                                            !.profit = profit],
                         !.capital_free = RAdd(pf.capital_free, revenue),
                         !.capital_allocated = Released(pf.capital_allocated, pls[k].cost),
                         !.trades_history = Append(pf.trades_history, trade)]

\* most positions a portfolio is given in one run of the model
MaxPositions == 2

\* arguments of the calls: ladder levels, prices, quantities and costs
PositionLevels == {-1, -2}
BuyPrices == {RInt(50)}
SellPrices == {RInt(40), RInt(60)}
PositionQuantities == {One}
SoldQuantities == {One, Rat(1, 2)}
PositionCosts == {RInt(50), RInt(60)}

\* the positions of the traded strategy, none before its first add_position
PositionsOf(pos) ==
    IF strategy_name \in DOMAIN pos THEN pos[strategy_name].ladders ELSE <<>>

\* one call of add_position (lines 18-43)
AddPositionCall(ladder_level, buy_price, quantity, cost) ==
    /\ Len(PositionsOf(positions)) < MaxPositions
    /\ \E pf \in {add_position(Portfolio(positions, capital_allocated, capital_free,
                                         trades_history),
                               strategy_name, ladder_level, buy_price, quantity, cost)} :
        /\ positions' = pf.positions
        /\ capital_allocated' = pf.capital_allocated
        /\ capital_free' = pf.capital_free
        /\ trades_history' = pf.trades_history
    /\ status_moves' = {}
    /\ UNCHANGED <<mode, seqVars, config, ladders, current_price, position_size, profit_details,
                   btVars, omVars>>

AddPosition ==
    \E ladder_level \in PositionLevels, buy_price \in BuyPrices,
       quantity \in PositionQuantities, cost \in PositionCosts :
        AddPositionCall(ladder_level, buy_price, quantity, cost)

\* one call of close_position (lines 45-84)
ClosePositionCall(ladder_level, sell_price, quantity) ==
    /\ \E pf \in {close_position(Portfolio(positions, capital_allocated, capital_free,
                                           trades_history),
                                 strategy_name, ladder_level, sell_price, quantity)} :
        /\ positions' = pf.positions
        /\ capital_allocated' = pf.capital_allocated
        /\ capital_free' = pf.capital_free
        /\ trades_history' = pf.trades_history
    /\ status_moves' = {}
    /\ UNCHANGED <<mode, seqVars, config, ladders, current_price, position_size, profit_details,
                   btVars, omVars>>

ClosePosition ==
    \E ladder_level \in PositionLevels, sell_price \in SellPrices,
       quantity \in SoldQuantities :
        ClosePositionCall(ladder_level, sell_price, quantity)

----------------------------------------------------------------------------
(* The exchange, as BinanceClient sees it                                  *)

\* binance_client.py line 83: default tick size 0.01
tick_size == Rat(1, 100)

\* binance_client.py line 89: default step size 0.001
step_size == Rat(1, 1000)

\* binance_client.py lines 67-78: quantize(step, rounding=ROUND_DOWN)
round_to_step(value, step) == RMul(RInt(Trunc(RDiv(value, step))), step)

\* binance_client.py lines 152-178: the order the exchange returns, or the
\* exception of a price or quantity that rounds to 0
OrderRejected == [orderId |-> 0]

create_limit_order(id, side, quantity, price) ==
    LET rounded_price == round_to_step(price, tick_size)
        rounded_qty == round_to_step(quantity, step_size)
    IN  IF RLe(rounded_qty, Zero) \/ RLe(rounded_price, Zero) THEN OrderRejected
        ELSE [orderId |-> id, side |-> side, price |-> rounded_price,
              origQty |-> rounded_qty]

----------------------------------------------------------------------------
(* OrderManager                                                            *)

\* most orders the exchange accepts in one run of the model
MaxOrders == 3

\* free USDT balances the exchange may report
Balances == {100, 200, 1000}

\* market prices handed to place_ladder_buy_orders
MarketPrices == {60, 100}

\* order_manager.py lines 63-69 and 237-243: an entry of active_orders
OrderData(order, type, k, ls) ==
    [orderId |-> order.orderId, strategy |-> strategy_name,
     level |-> ls[k].level, type |-> type, ladder |-> k,
     price |-> order.price, qty |-> order.origQty]

\* binance_client.get_account_balance('USDT'): the free balance, or an
\* exception
BalanceReplies ==
    {[ok |-> TRUE, free |-> b] : b \in Balances} \cup {[ok |-> FALSE, free |-> 0]}

Remaining_untracked(available_usdt, estimated_cost) == available_usdt

\* order_manager.py line 72: available_usdt -= estimated_cost
Remaining(available_usdt, estimated_cost) == RSub(available_usdt, estimated_cost)

\* order_manager.py lines 34-76: the loop over the pending ladders from the
\* j-th on.  refused holds the ladders whose order the exchange refuses
\* (price filter or create_order exception); st carries active_orders, the
\* number of orders created and whether a KeyError ended the call.
RECURSIVE PlaceLoop(_, _, _, _, _, _, _)
PlaceLoop(ls, pending, j, cp, available_usdt, refused, st) ==
    IF j > Len(pending) THEN st
    ELSE LET k == pending[j]
             ladder == ls[k]
         IN  IF RGe(ladder.buy_price, cp)
             THEN PlaceLoop(ls, pending, j + 1, cp, available_usdt, refused, st)
             ELSE IF ladder.btc_amount = Absent
             THEN [st EXCEPT !.raised = TRUE]
             ELSE LET estimated_cost == RMul(ladder.buy_price, ladder.btc_amount)
                      order == create_limit_order(st.created + 1, "BUY",
                                                  ladder.btc_amount, ladder.buy_price)
                  IN  IF RGt(estimated_cost, available_usdt)
                         \/ k \in refused
                         \/ order = OrderRejected
                      THEN PlaceLoop(ls, pending, j + 1, cp, available_usdt, refused, st)
                      ELSE PlaceLoop(ls, pending, j + 1, cp,
                                     Remaining(available_usdt, estimated_cost), refused,
                                     [st EXCEPT
                                        !.orders = Append(@, OrderData(order, "BUY", k, ls)),
                                        !.created = @ + 1])

\* order_manager.py lines 18-84; a failing balance query returns without
\* placing anything (lines 25-30)
place_ladder_buy_orders(ls, orders, created, cp, balance, refused) ==
    IF ~balance.ok THEN [orders |-> orders, created |-> created, raised |-> FALSE]
    ELSE PlaceLoop(ls, get_pending_ladders(ls), 1, cp, RInt(balance.free), refused,
                   [orders |-> orders, created |-> created, raised |-> FALSE])

\* One call of place_ladder_buy_orders with a market price, the reply of the
\* balance query and the ladders whose order the exchange refuses.  An
\* unpriced pending ladder raises KeyError at line 39 and leaves the orders
\* placed before it.
PlaceLadderBuyOrders ==
    /\ mode = "live"
    /\ current_price # Absent
    /\ \E cp \in MarketPrices, balance \in BalanceReplies,
          refused \in SUBSET (1..Len(ladders)) :
       \E st \in {place_ladder_buy_orders(ladders, active_orders, orders_created,
                                          RInt(cp), balance, refused)} :
            /\ st.created <= MaxOrders
            /\ active_orders' = st.orders
            /\ orders_created' = st.created
    /\ status_moves' = {}
    /\ UNCHANGED <<mode, seqVars, config, ladders, current_price, position_size, profit_details, btVars, pfVars>>

\* main.py lines 116-122: run_live_trading prices the strategy at the current
\* market price and places the initial buy orders at that same price, once,
\* before the trading loop starts
LiveStart ==
    /\ mode = "live"
    /\ current_price = Absent
    /\ \E p \in Prices, balance \in BalanceReplies,
          refused \in SUBSET (1..Len(ladders)) :
       \E ls \in {update_prices(ladders, config, p)} :
       \E st \in {place_ladder_buy_orders(ls, active_orders, orders_created,
                                          RInt(p), balance, refused)} :
            /\ st.created <= MaxOrders
            /\ ladders' = ls
            /\ current_price' = RInt(p)
            /\ active_orders' = st.orders
            /\ orders_created' = st.created
    /\ status_moves' = {}
    /\ UNCHANGED <<mode, seqVars, config, position_size, profit_details, btVars, pfVars>>

\* order_placement.proximity_percent and order_placement.delay_seconds of
\* the strategy's config, at their defaults (lines 97-98)
proximity_percent == Rat(15, 1000)
delay_seconds == 45

\* approaching_since is None
None == -1

\* order_manager.py lines 104-108: the state a strategy starts with
NoSequentialState == [next_level_idx |-> 0, approaching_since |-> None]

HasActiveBuy_ignored(orders) == FALSE

\* order_manager.py lines 113-116
HasActiveBuy(orders) ==
    \E j \in 1..Len(orders) :
        orders[j].strategy = strategy_name /\ orders[j].type = "BUY"

\* order_manager.py lines 132-133: the price is approaching the ladder
InProximity(cp, ladder) ==
    RLe(RDiv(RSub(cp, ladder.buy_price), cp), proximity_percent)

DelayElapsed_at_once(elapsed) == TRUE

\* order_manager.py line 145
DelayElapsed(elapsed) == elapsed >= delay_seconds

\* order_manager.py lines 162-216: st carries active_orders, the number of
\* orders created and the sequential state.  A failing balance query, a
\* cost above the free balance, a refusal of the exchange (price filter or
\* create_limit_order exception) and the KeyError of an unpriced ladder at
\* line 177 all leave st as it is.
place_single_buy_order(ls, k, cp, balance, refused, st) ==
    LET ladder == ls[k]
    IN  IF RGe(ladder.buy_price, cp) THEN st
        ELSE IF ~balance.ok \/ ladder.btc_amount = Absent THEN st
        ELSE LET estimated_cost == RMul(ladder.buy_price, ladder.btc_amount)
                 order == create_limit_order(st.created + 1, "BUY",
                                             ladder.btc_amount, ladder.buy_price)
             IN  IF RGt(estimated_cost, RInt(balance.free))
                    \/ refused
                    \/ order = OrderRejected
                 THEN st
                 ELSE [orders |-> Append(st.orders, OrderData(order, "BUY", k, ls)),
                       created |-> st.created + 1,
                       seq |-> [next_level_idx |-> st.seq.next_level_idx + 1,
                                approaching_since |-> None]]

\* order_manager.py lines 86-160, called at time t
place_next_sequential_order(ls, orders, created, seq, cp, t, balance, refused) ==
    LET st == [orders |-> orders, created |-> created, seq |-> seq]
        pending == get_pending_ladders(ls)
    IN  IF HasActiveBuy(orders) THEN st
        ELSE IF pending = <<>> THEN st
        ELSE IF seq.next_level_idx = 0 /\ seq.approaching_since = None
        THEN place_single_buy_order(ls, pending[1], cp, balance, refused, st)
        ELSE IF InProximity(cp, ls[pending[1]])
        THEN IF seq.approaching_since = None
             THEN [st EXCEPT !.seq.approaching_since = t]
             ELSE IF DelayElapsed(t - seq.approaching_since)
             THEN place_single_buy_order(ls, pending[1], cp, balance, refused,
                                         [st EXCEPT !.seq.approaching_since = None])
             ELSE st
        ELSE [st EXCEPT !.seq.approaching_since = None]

\* market prices handed to place_next_sequential_order: far above both
\* levels of a strategy priced at 100, within 1.5 % of the first (75), below
\* the first, within 1.5 % of the second (50)
SequentialPrices == {RInt(100), RInt(76), RInt(60), Rat(101, 2)}

\* One call of place_next_sequential_order on a priced strategy with a
\* market price, the reply of the balance query and whether the exchange
\* refuses the order.
PlaceNextSequentialOrder ==
    /\ mode = "live"
    /\ current_price # Absent
    /\ \E cp \in SequentialPrices, balance \in BalanceReplies, refused \in BOOLEAN :
       \E st \in {place_next_sequential_order(ladders, active_orders, orders_created,
                                              sequential_state, cp, now, balance,
                                              refused)} :
            /\ st.created <= MaxOrders
            /\ active_orders' = st.orders
            /\ orders_created' = st.created
            /\ sequential_state' = st.seq
    /\ status_moves' = {}
    /\ UNCHANGED <<mode, now, config, ladders, current_price, position_size, profit_details,
                   btVars, pfVars>>

\* seconds between two readings of the clock, and the number of readings
TickSeconds == 30
MaxTicks == 3

\* time.time() at line 134: time passes between two calls
Tick ==
    /\ now < MaxTicks * TickSeconds
    /\ now' = now + TickSeconds
    /\ status_moves' = {}
    /\ UNCHANGED <<mode, sequential_state, config, ladders, current_price, position_size,
                   profit_details, btVars, omVars, pfVars>>

\* order_manager.py lines 227-250; returns the grown active_orders, or the
\* old one when the order cannot be created
place_sell_order(ls, orders, created, k, refused) ==
    LET ladder == ls[k]
        order == IF ladder.btc_amount = Absent \/ ladder.sell_price = Absent
                 THEN OrderRejected
                 ELSE create_limit_order(created + 1, "SELL",
                                         ladder.btc_amount, ladder.sell_price)
    IN  IF refused \/ order = OrderRejected
        THEN [orders |-> orders, created |-> created]
        ELSE [orders |-> Append(orders, OrderData(order, "SELL", k, ls)),
              created |-> created + 1]

\* order_manager.py lines 264-296: what a FILLED status does to one order.
\* The exchange reports the order's own price and quantity as executed.
ApplyFill(st, od) ==
    LET cost == RMul(od.price, od.qty)
    IN  IF od.type = "BUY"
        THEN [st EXCEPT
                !.pf = add_position(@, od.strategy, od.level, od.price, od.qty, cost),
                !.ladders[od.ladder].status = "active",
                !.moves = @ \cup {<<od.ladder, st.ladders[od.ladder].status, "active">>},
                !.filled = Append(@, od)]
        ELSE [st EXCEPT
                !.pf = close_position(@, od.strategy, od.level, od.price, od.qty),
                !.ladders[od.ladder].status = "closed",
                !.moves = @ \cup {<<od.ladder, st.ladders[od.ladder].status, "closed">>},
                !.filled = Append(@, od)]

\* order_manager.py lines 265-299: a FILLED status whose fields cannot be
\* converted (float(status['price']), lines 272-274 and 286-287).  The
\* order is already in filled_orders; the exception is caught at line 298
\* before the portfolio, the ladder and active_orders are touched.
FailedFill(st, od) ==
    [st EXCEPT !.orders = Append(@, od), !.filled = Append(@, od)]

\* order_manager.py lines 256-299: the loop over a copy of active_orders;
\* filled holds the ids the exchange reports FILLED, raising those of them
\* whose processing raises; any other order is still open or its status
\* query raises
RECURSIVE FillLoop(_, _, _, _, _)
FillLoop(orders, j, filled, raising, st) ==
    IF j > Len(orders) THEN st
    ELSE IF orders[j].orderId \in raising
         THEN FillLoop(orders, j + 1, filled, raising, FailedFill(st, orders[j]))
         ELSE IF orders[j].orderId \in filled
         THEN FillLoop(orders, j + 1, filled, raising, ApplyFill(st, orders[j]))
         ELSE FillLoop(orders, j + 1, filled, raising,
                       [st EXCEPT !.orders = Append(@, orders[j])])

\* order_manager.py lines 252-301
check_filled_orders(ls, pf, orders, filled, raising) ==
    FillLoop(orders, 1, filled, raising,
             [ladders |-> ls, pf |-> pf, orders |-> <<>>, filled |-> <<>>,
              moves |-> {}])

\* main.py lines 135-140: a sell order for every filled buy
RECURSIVE SellLoop(_, _, _, _, _)
SellLoop(ls, filled_orders, j, refused, st) ==
    IF j > Len(filled_orders) THEN st
    ELSE LET od == filled_orders[j]
         IN  IF od.type = "BUY"
             THEN SellLoop(ls, filled_orders, j + 1, refused,
                           place_sell_order(ls, st.orders, st.created, od.ladder,
                                            od.orderId \in refused))
             ELSE SellLoop(ls, filled_orders, j + 1, refused, st)

OrderIds(orders) == {orders[j].orderId : j \in 1..Len(orders)}

\* the BUY orders among ids
BuyIds(orders, ids) ==
    {orders[j].orderId : j \in {i \in 1..Len(orders) :
                                  orders[i].type = "BUY" /\ orders[i].orderId \in ids}}

\* main.py lines 127-157: one iteration of the trading loop
LiveLoopIteration ==
    /\ mode = "live"
    /\ \E filled \in SUBSET OrderIds(active_orders) :
       \E refused \in SUBSET BuyIds(active_orders, filled) :
       \E raising \in SUBSET BuyIds(active_orders, filled) :
       \E polled \in {check_filled_orders(ladders,
                          Portfolio(positions, capital_allocated, capital_free,
                                    trades_history),
                          active_orders, filled, raising)} :
       \E sold \in {SellLoop(polled.ladders, polled.filled, 1, refused,
                             [orders |-> polled.orders, created |-> orders_created])} :
            /\ sold.created <= MaxOrders
            /\ ladders' = polled.ladders
            /\ status_moves' = polled.moves
            /\ positions' = polled.pf.positions
            /\ capital_allocated' = polled.pf.capital_allocated
            /\ capital_free' = polled.pf.capital_free
            /\ trades_history' = polled.pf.trades_history
            /\ active_orders' = sold.orders
            /\ orders_created' = sold.created
    /\ UNCHANGED <<mode, seqVars, config, current_price, position_size, profit_details, btVars>>

----------------------------------------------------------------------------
(* Backtester                                                              *)

\* backtester.py line 18
initial_capital == 10000

\* backtester.py lines 45 and 67: fee = cost * 0.001
bt_fee_rate == Rat(1, 1000)

\* most bars replayed in one run
MaxBars == 3

\* low, high and close of the replayed bars
BarPrices == {0, 60, 80}

\* index values of the rows of the DataFrame; pandas does not require the
\* index to be sorted or free of duplicates
Timestamps == {1, 2, 3}

\* the rows a DataFrame of candles can hold
Bars ==
    {b \in [timestamp : Timestamps, low : BarPrices, high : BarPrices,
            close : BarPrices] :
        b.low <= b.close /\ b.close <= b.high}

\* no row has been read
NoRow == [timestamp |-> 0, low |-> 0, high |-> 0, close |-> 0]

StartingPrice_low(first) == first.low

\* line 28: starting_price = self.data['close'].iloc[0]
StartingPrice(first) == first.close

BuyTriggered_lt(low_price, ladder) == RLt(low_price, ladder.buy_price)

\* line 42
BuyTriggered(low_price, ladder) == RLe(low_price, ladder.buy_price)

TotalCost_nofee(ladder) == RMul(ladder.btc_amount, ladder.buy_price)

\* lines 44-46
TotalCost(ladder) ==
    LET cost == RMul(ladder.btc_amount, ladder.buy_price)
        fee == RMul(cost, bt_fee_rate)
    IN  RAdd(cost, fee)

Affordable_always(cash, total_cost) == TRUE

\* line 48
Affordable(cash, total_cost) == RGe(cash, total_cost)

\* lines 41-59: the loop over the ladders that were pending when the bar
\* began, from list position k on; st carries the ladders, the cash, the
\* open positions and whether ladder['btc_amount'] raised KeyError
RECURSIVE BuyLoop(_, _, _, _, _)
BuyLoop(pending, j, low_price, timestamp, st) ==
    IF j > Len(pending) THEN st
    ELSE LET k == pending[j]
             ladder == st.ladders[k]
         IN  IF ~BuyTriggered(low_price, ladder)
             THEN BuyLoop(pending, j + 1, low_price, timestamp, st)
             ELSE IF ladder.btc_amount = Absent
             THEN [st EXCEPT !.raised = TRUE]
             ELSE LET total_cost == TotalCost(ladder)
                  IN  IF Affordable(st.capital, total_cost)
                      THEN BuyLoop(pending, j + 1, low_price, timestamp,
                             [st EXCEPT
                                !.capital = RSub(@, total_cost),
                                !.active = Append(@,
                                    [ladder |-> k,
                                     buy_price |-> ladder.buy_price,
                                     buy_time |-> timestamp,
                                     quantity |-> ladder.btc_amount,
                                     cost |-> total_cost]),
                                !.ladders[k].status = "active",
                                !.moves = @ \cup {<<k, ladder.status, "active">>}])
                      ELSE BuyLoop(pending, j + 1, low_price, timestamp, st)

SellTriggered_gt(high_price, ladder) == RGt(high_price, ladder.sell_price)

\* line 64
SellTriggered(high_price, ladder) == RGe(high_price, ladder.sell_price)

NetRevenue_gross(position, ladder) == RMul(position.quantity, ladder.sell_price)

\* lines 66-68
NetRevenue(position, ladder) ==
    LET revenue == RMul(position.quantity, ladder.sell_price)
        fee == RMul(revenue, bt_fee_rate)
    IN  RSub(revenue, fee)

Profit_gross(net_revenue, cost) == net_revenue

\* line 70
Profit(net_revenue, cost) == RSub(net_revenue, cost)

SoldStatus_rearmed == "pending"

\* line 89: the status of a level whose position has been sold
SoldStatus == "closed"

\* line 84
Roi(profit, cost) == RMul(RDiv(profit, cost), RInt(100))

\* lines 74-85
Trade(position, ladder, timestamp, net_revenue, profit) ==
    [buy_time |-> position.buy_time,
     sell_time |-> timestamp,
     level |-> ladder.level,
     buy_price |-> position.buy_price,
     sell_price |-> ladder.sell_price,
     quantity |-> position.quantity,
     cost |-> position.cost,
     revenue |-> net_revenue,
     profit |-> profit,
     roi |-> Roi(profit, position.cost)]

Recorded_overwrite(log, entry) == <<entry>>

\* lines 87 and 97: list.append
Recorded(log, entry) == Append(log, entry)

\* lines 62-91: the loop over a copy of the open positions
RECURSIVE SellPositions(_, _, _, _, _)
SellPositions(open, j, high_price, timestamp, st) ==
    IF j > Len(open) THEN st
    ELSE LET position == open[j]
             ladder == st.ladders[position.ladder]
         IN  IF ~SellTriggered(high_price, ladder)
             THEN SellPositions(open, j + 1, high_price, timestamp,
                                [st EXCEPT !.active = Append(@, position)])
             ELSE LET net_revenue == NetRevenue(position, ladder)
                      profit == Profit(net_revenue, position.cost)
                  IN  SellPositions(open, j + 1, high_price, timestamp,
                         [st EXCEPT
                            !.capital = RAdd(@, net_revenue),
                            !.trades = Recorded(@, Trade(position, ladder, timestamp,
                                                         net_revenue, profit)),
                            !.ladders[position.ladder].status = SoldStatus,
                            !.moves = @ \cup {<<position.ladder, ladder.status, SoldStatus>>}])

PositionValue_cost(p, current) == RMul(p.quantity, p.buy_price)

\* line 94: p['quantity'] * current_price
PositionValue(p, current) == RMul(p.quantity, current)

\* line 94: the sum over the open positions
RECURSIVE PositionsValue(_, _, _)
PositionsValue(open, j, close_price) ==
    IF j = 0 THEN Zero
    ELSE RAdd(PositionsValue(open, j - 1, close_price),
              PositionValue(open[j], close_price))

\* lines 95-102
Snapshot(timestamp, cash, positions_value) ==
    [timestamp |-> timestamp, cash |-> cash, positions_value |-> positions_value,
     total_value |-> RAdd(cash, positions_value)]

\* lines 22-32: run() reads the first row and prices the ladders once, from
\* its close
BacktestStart ==
    /\ mode = "backtest"
    /\ bt_pc = "init"
    /\ Len(ladders) > 0
    /\ \E first \in Bars :
        /\ row' = first
        /\ ladders' = update_prices(ladders, config, StartingPrice(first))
        /\ current_price' = RInt(StartingPrice(first))
    /\ status_moves' = {}
    /\ bt_pc' = "running"
    /\ UNCHANGED <<mode, seqVars, config, position_size, profit_details, exception, capital, active_ladders,
                   trades, portfolio_value, report, omVars, pfVars>>

\* line 25: on a DataFrame without rows self.data.index[0] raises IndexError
BacktestEmptyData ==
    /\ mode = "backtest"
    /\ bt_pc = "init"
    /\ bt_pc' = "raised"
    /\ exception' = "IndexError"
    /\ status_moves' = {}
    /\ UNCHANGED <<mode, seqVars, config, ladders, current_price, position_size, profit_details, row, capital,
                   active_ladders, trades, portfolio_value, report, omVars, pfVars>>

\* lines 35-102: one iteration of the loop over the candles, in the order of
\* the rows of the DataFrame
BacktestBar ==
    /\ mode = "backtest"
    /\ bt_pc = "running"
    /\ Len(portfolio_value) < MaxBars
    /\ \E bar \in Bars :
        /\ Len(portfolio_value) = 0 => bar = row
        /\ row' = bar
        /\ \E timestamp \in {bar.timestamp} :
           \E bought \in {BuyLoop(get_pending_ladders(ladders), 1, RInt(bar.low),
                                  timestamp,
                                  [ladders |-> ladders, capital |-> capital,
                                   active |-> active_ladders, raised |-> FALSE,
                                   moves |-> {}])} :
           \E sold \in {SellPositions(bought.active, 1, RInt(bar.high), timestamp,
                                      [ladders |-> bought.ladders,
                                       capital |-> bought.capital,
                                       active |-> <<>>, trades |-> trades,
                                       moves |-> bought.moves])} :
               IF bought.raised
               THEN /\ bt_pc' = "raised"
                    /\ exception' = "KeyError"
                    /\ ladders' = bought.ladders
                    /\ status_moves' = bought.moves
                    /\ capital' = bought.capital
                    /\ active_ladders' = bought.active
                    /\ UNCHANGED <<trades, portfolio_value>>
               ELSE /\ bt_pc' = "running"
                    /\ exception' = exception
                    /\ ladders' = sold.ladders
                    /\ status_moves' = sold.moves
                    /\ capital' = sold.capital
                    /\ active_ladders' = sold.active
                    /\ trades' = sold.trades
                    /\ portfolio_value' =
                         Recorded(portfolio_value,
                                  Snapshot(timestamp, sold.capital,
                                           PositionsValue(sold.active, Len(sold.active),
                                                          RInt(bar.close))))
    /\ UNCHANGED <<mode, seqVars, config, current_price, position_size, profit_details, report, omVars,
                   pfVars>>

----------------------------------------------------------------------------
(* Backtester.generate_report                                              *)

\* run() has not returned a dict
NoReport == [returned |-> FALSE]

\* the column of a list of dicts, as pd.DataFrame(...)[key] reads it
Column(dicts, key) == [i \in 1..Len(dicts) |-> dicts[i][key]]

\* Series.sum() of the first k values
RECURSIVE SeriesSum(_, _)
SeriesSum(values, k) ==
    IF k = 0 THEN Zero ELSE RAdd(SeriesSum(values, k - 1), values[k])

\* Series.max() of the first k values (k > 0)
RECURSIVE SeriesMax(_, _)
SeriesMax(values, k) ==
    IF k = 1 THEN values[1]
    ELSE IF RGe(values[k], SeriesMax(values, k - 1)) THEN values[k]
         ELSE SeriesMax(values, k - 1)

\* Series.min() of the first k values (k > 0)
RECURSIVE SeriesMin(_, _)
SeriesMin(values, k) ==
    IF k = 1 THEN values[1]
    ELSE IF RLe(values[k], SeriesMin(values, k - 1)) THEN values[k]
         ELSE SeriesMin(values, k - 1)

\* line 156: expanding(min_periods=1).max(), the running peak at row k
expanding_max(total_value, k) == SeriesMax(total_value, k)

Drawdown_gain(value, peak) == RDiv(RSub(peak, value), peak)

\* line 157: the drawdown of one row
Drawdown(value, peak) == RDiv(RSub(value, peak), peak)

\* lines 154-158
calculate_max_drawdown(portfolio) ==
    LET total_value == Column(portfolio, "total_value")
        drawdown == [k \in 1..Len(portfolio) |->
                        Drawdown(total_value[k], expanding_max(total_value, k))]
    IN  RMul(SeriesMin(drawdown, Len(drawdown)), RInt(100))

\* trades with a profit for which the comparison holds (lines 120-121)
Winning(profits) == Cardinality({i \in 1..Len(profits) : RGt(profits[i], Zero)})
Losing(profits) == Cardinality({i \in 1..Len(profits) : RLt(profits[i], Zero)})

\* lines 106-152; the Sharpe ratio (a multiple of the square root of 252) is
\* not a rational number and is left out of the dict
generate_report(trade_log, portfolio, cash) ==
    IF trade_log = <<>>
    THEN [error |-> "No trades executed",
          initial_capital |-> RInt(initial_capital),
          final_capital |-> cash]
    ELSE LET profits == Column(trade_log, "profit")
             total_profit == SeriesSum(profits, Len(profits))
             num_trades == Len(trade_log)
             final == portfolio[Len(portfolio)].total_value
         IN  [period |-> [start |-> portfolio[1].timestamp,
                          end |-> portfolio[Len(portfolio)].timestamp],
              capital |-> [initial |-> RInt(initial_capital),
                           final |-> final,
                           profit |-> total_profit,
                           roi_percent |->
                               RMul(RDiv(total_profit, RInt(initial_capital)),
                                    RInt(100))],
              trades |-> [total |-> num_trades,
                          winning |-> Winning(profits),
                          losing |-> Losing(profits),
                          win_rate |-> RMul(Rat(Winning(profits), num_trades),
                                            RInt(100)),
                          avg_profit |-> RDiv(total_profit, RInt(num_trades)),
                          max_profit |-> SeriesMax(profits, num_trades),
                          max_loss |-> SeriesMin(profits, num_trades)],
              performance |->
                  [total_return_pct |->
                       RMul(RDiv(RSub(final, RInt(initial_capital)),
                                 RInt(initial_capital)), RInt(100)),
                   max_drawdown_pct |-> calculate_max_drawdown(portfolio)]]

\* line 104: the loop has read every row of the data and run() returns
\* generate_report()
BacktestReport ==
    /\ mode = "backtest"
    /\ bt_pc = "running"
    /\ Len(portfolio_value) > 0
    /\ bt_pc' = "done"
    /\ report' = generate_report(trades, portfolio_value, capital)
    /\ status_moves' = {}
    /\ UNCHANGED <<mode, seqVars, config, ladders, current_price, position_size, profit_details,
                   exception, row, capital, active_ladders, trades, portfolio_value,
                   omVars, pfVars>>

----------------------------------------------------------------------------
(* The bot: one strategy, run either through a backtest or by the live     *)
(* trading driver.                                                         *)

\* most levels of the strategies that are traded
MaxLevels == 2

\* free USDT balance read when the live driver starts (main.py line 105)
StartBalances == {1000}

TradedConfigs ==
    [base_gap : {Rat(1, 4)}, fibonacci : {FIB},
     ladders : 1..MaxLevels, unit_size : {One, RInt(100)}]

\* Strategy.__init__, Backtester.__init__, Portfolio.__init__ and
\* OrderManager.__init__
Constructed(cfgs) ==
    /\ config \in cfgs
    /\ ladders = calculate_ladders(config)
    /\ status_moves = {}
    /\ current_price = Absent
    /\ position_size = NoPositionSize
    /\ profit_details = NoProfitDetails
    /\ bt_pc = "init"
    /\ exception = "none"
    /\ row = NoRow
    /\ capital = RInt(initial_capital)
    /\ active_ladders = <<>>
    /\ trades = <<>>
    /\ portfolio_value = <<>>
    /\ report = NoReport
    /\ active_orders = <<>>
    /\ orders_created = 0
    /\ sequential_state = NoSequentialState
    /\ now = 0
    /\ positions = <<>>
    /\ capital_allocated = Zero
    /\ \E b \in StartBalances : capital_free = RInt(b)
    /\ trades_history = <<>>

Init ==
    /\ mode \in {"backtest", "live"}
    /\ Constructed(TradedConfigs)

Next ==
    \/ BacktestStart
    \/ BacktestEmptyData
    \/ BacktestBar
    \/ BacktestReport
    \/ UpdatePrices
    \/ PlaceLadderBuyOrders
    \/ LiveLoopIteration
    \/ ResetLadders

Spec == Init /\ [][Next]_vars

----------------------------------------------------------------------------
(* Ladder plans and their pricing: every configuration, no trading.        *)

InitPlan ==
    /\ mode = "live"
    /\ Constructed(PlanConfigs)

NextPlan == UpdatePrices \/ CalculatePositionSize

SpecPlan == InitPlan /\ [][NextPlan]_vars

----------------------------------------------------------------------------
(* The Martingale calculator on its own.                                   *)

InitCalc ==
    /\ mode = "live"
    /\ Constructed(TradedConfigs)

NextCalc == CalculatePositionSize \/ CalculateProfit

SpecCalc == InitCalc /\ [][NextCalc]_vars

----------------------------------------------------------------------------
(* The Portfolio on its own, under any sequence of calls.                  *)

InitPortfolio ==
    /\ mode = "live"
    /\ Constructed(TradedConfigs)

NextPortfolio == AddPosition \/ ClosePosition

SpecPortfolio == InitPortfolio /\ [][NextPortfolio]_vars

----------------------------------------------------------------------------
(* run_live_trading as main.py runs it: the start-up, then the trading     *)
(* loop for ever.  `while True` with a sleep of 60 seconds runs the        *)
(* iteration again and again, and the start-up runs once: weak fairness    *)
(* on both.                                                                *)

InitLiveLoop ==
    /\ mode = "live"
    /\ Constructed(TradedConfigs)

NextLiveLoop == LiveStart \/ LiveLoopIteration

SpecLiveLoop ==
    /\ InitLiveLoop
    /\ [][NextLiveLoop]_vars
    /\ WF_vars(LiveStart)
    /\ WF_vars(LiveLoopIteration)

----------------------------------------------------------------------------
(* Sequential order placement: place_next_sequential_order and the fill    *)
(* polls of the trading loop in any interleaving, while time passes.       *)

InitSeq ==
    /\ mode = "live"
    /\ Constructed(TradedConfigs)

NextSeq ==
    \/ UpdatePrices
    \/ PlaceNextSequentialOrder
    \/ LiveLoopIteration
    \/ Tick

SpecSeq == InitSeq /\ [][NextSeq]_vars

----------------------------------------------------------------------------
(* Properties of the ladder plan and of its pricing.                       *)

\* ladder_config.get('gap_max', 0.95) of the documented clamp
gap_max == Rat(95, 100)

RMin(a, b) == IF RLe(a, b) THEN a ELSE b

RAbs(a) == [n |-> Abs(a.n), d |-> a.d]

ClampedGap(cfg, i) == RMin(Gap(cfg, i), gap_max)

\* product over j <= i (0-based) of (1 - gap_j)
RECURSIVE CompoundMultiplier(_, _)
CompoundMultiplier(cfg, i) ==
    IF i < 0 THEN One
    ELSE RMul(CompoundMultiplier(cfg, i - 1), RSub(One, ClampedGap(cfg, i)))

RECURSIVE SumUnits(_, _)
SumUnits(ls, k) == IF k = 0 THEN 0 ELSE ls[k].units + SumUnits(ls, k - 1)

ValidConfig(cfg) ==
    /\ RGt(cfg.base_gap, Zero)
    /\ cfg.ladders > 0
    /\ Len(cfg.fibonacci) >= cfg.ladders
    /\ \A k \in 1..Len(cfg.fibonacci) : cfg.fibonacci[k] > 0

Priced == current_price # Absent

PricedPositive == Priced /\ RGt(current_price, Zero)

\* C1: every level's buy_price_multiplier is the product over j <= i of
\* (1 - gap_j) of the clamped gaps, and its cumulative_gap_percent is 1 minus
\* that product (not 1 minus the sum of the gaps).
C1_CompoundMultiplier ==
    \A k \in 1..Len(ladders) :
        /\ ladders[k].buy_price_multiplier = CompoundMultiplier(config, k - 1)
        /\ ladders[k].cumulative_gap_percent
             = RSub(One, CompoundMultiplier(config, k - 1))

\* C2: a plan is never truncated: ladder_count = n > 0 with at least n
\* weights yields exactly n levels with level ids -1..-n.
C2_NoTruncation ==
    (config.ladders > 0 /\ Len(config.fibonacci) >= config.ladders) =>
        /\ Len(ladders) = config.ladders
        /\ \A k \in 1..Len(ladders) : ladders[k].level = -k

\* C3: every level records raw_gap_percent = base_gap*weight (unclamped) and
\* gap_percent = min(raw_gap_percent, gap_max), so gap_percent <= gap_max.
C3_GapClamp ==
    \A k \in 1..Len(ladders) :
        /\ "raw_gap_percent" \in DOMAIN ladders[k]
        /\ ladders[k].raw_gap_percent = Gap(config, k - 1)
        /\ ladders[k].gap_percent = RMin(Gap(config, k - 1), gap_max)
        /\ RLe(ladders[k].gap_percent, gap_max)

\* C4: for a valid config the buy_price_multiplier is strictly decreasing in
\* the level index and lies in (0, 1], so every buy price derived from a
\* positive reference price is strictly positive.
C4_MonotonicMultipliers ==
    ValidConfig(config) =>
        \A k \in 1..Len(ladders) :
            /\ RGt(ladders[k].buy_price_multiplier, Zero)
            /\ RLe(ladders[k].buy_price_multiplier, One)
            /\ k > 1 => RLt(ladders[k].buy_price_multiplier,
                            ladders[k - 1].buy_price_multiplier)
            /\ PricedPositive => RGt(ladders[k].buy_price, Zero)

C4_Witness ==
    /\ ValidConfig(config)
    /\ Len(ladders) >= 3
    /\ PricedPositive
    /\ RLt(ladders[3].buy_price, ladders[2].buy_price)

\* C5: after update_prices(p) with p > 0 every level has
\* sell_price = buy_price / (1 - gap_percent) within 1e-6 relative.
C5_SellBuyReciprocity ==
    PricedPositive =>
        \A k \in 1..Len(ladders) :
            LET l == ladders[k]
                reconstructed == RDiv(l.buy_price, RSub(One, l.gap_percent))
                relative == RDiv(RAbs(RSub(reconstructed, l.sell_price)), l.sell_price)
            IN  RLe(relative, Rat(1, 1000000))

\* C6: after update_prices(p) the shallowest level sells at p and every
\* deeper level sells at the buy price of the level above it.
C6_SellReturnsToPreviousTier ==
    Priced =>
        \A k \in 1..Len(ladders) :
            ladders[k].sell_price =
                IF k = 1 THEN current_price ELSE ladders[k - 1].buy_price

C6_Witness ==
    /\ PricedPositive
    /\ Len(ladders) >= 3
    /\ ladders[3].sell_price = ladders[2].buy_price
    /\ ladders[3].sell_price # ladders[3].buy_price

C8_NotionalDoubles ==
    PricedPositive =>
        \A k \in 1..Len(ladders) :
            /\ ladders[k].usdt_cost =
                 RMul(RInt(2^(k - 1)), RMul(ladders[1].buy_price, config.unit_size))
            /\ k > 1 => ladders[k].usdt_cost = RMul(RInt(2), ladders[k - 1].usdt_cost)
            /\ RMul(ladders[k].btc_amount, ladders[k].buy_price) = ladders[k].usdt_cost

C8_Witness ==
    /\ PricedPositive
    /\ Len(ladders) >= 3
    /\ ladders[3].usdt_cost = RMul(RInt(4), ladders[1].usdt_cost)
    /\ RLt(ladders[1].btc_amount, ladders[3].btc_amount)

----------------------------------------------------------------------------
(* Properties of the level state machine.                                  *)

StatusCycle ==
    {<<"pending", "active">>, <<"active", "closed">>, <<"closed", "pending">>}

\* C9: under backtest bar steps, live fill processing and reset_ladders, a
\* level's status only moves pending -> active, active -> closed and
\* closed -> pending; no fill re-enters the status the level already has.
C9_StatusCycleOnly ==
    \A m \in status_moves : <<m[2], m[3]>> \in StatusCycle

\* list positions of the open Portfolio positions of a level
OpenPositions(ladder_level) ==
    IF strategy_name \in DOMAIN positions
    THEN OpenAt(positions[strategy_name].ladders, ladder_level)
    ELSE {}

\* C10: at most one open position per level: the backtest's open-position
\* list never holds two entries of one ladder level, and the Portfolio never
\* holds two positions with status 'open' for the same (strategy, level).
C10_OneOpenPositionPerLevel ==
    /\ \A i, j \in 1..Len(active_ladders) :
          active_ladders[i].ladder = active_ladders[j].ladder => i = j
    /\ \A k \in 1..Len(ladders) : Cardinality(OpenPositions(ladders[k].level)) <= 1

----------------------------------------------------------------------------
(* Properties of the candle-by-candle backtest.                            *)

\* a step of the loop over the candles: in a backtest nothing else can
\* happen once the run has priced its ladders
BarStep == mode = "backtest" /\ bt_pc = "running" /\ bt_pc' # "done" /\ row' \in Bars

\* a step of the loop that reaches the snapshot at its end
BarCompleted == BarStep /\ bt_pc' = "running"

\* the level at list position k bought / sold in the step
BuyFilled(k) == <<k, "pending", "active">> \in status_moves'
SellFilled(k) == <<k, "active", "closed">> \in status_moves'

\* quantity * buy_price plus the 0.1 % fee of the buy leg
BuyLegCost(l) ==
    RAdd(RMul(l.btc_amount, l.buy_price),
         RMul(RMul(l.btc_amount, l.buy_price), Rat(1, 1000)))

\* the cash left when the buy loop of a step reaches list position k: the
\* cash before the step less the cost of the levels bought before k
RECURSIVE CashWhenReached(_, _, _, _)
CashWhenReached(ls, cash, moves, k) ==
    IF k = 1 THEN cash
    ELSE LET c == CashWhenReached(ls, cash, moves, k - 1)
         IN  IF <<k - 1, "pending", "active">> \in moves
             THEN RSub(c, BuyLegCost(ls[k - 1]))
             ELSE c

\* the level at list position k has a quantity and the cash left when the
\* step reaches it covers quantity * buy_price plus fee
CashCovers(k) ==
    /\ ladders[k].btc_amount # Absent
    /\ RGe(CashWhenReached(ladders, capital, status_moves', k),
           BuyLegCost(ladders[k]))

\* C11 as stated: in a bar the run completes, a pending level becomes active
\* if and only if the bar's low is at or below the level's buy_price.
C11_BuyIffLowReached ==
    [][BarCompleted =>
        \A k \in 1..Len(ladders) :
            ladders[k].status = "pending" =>
                (BuyFilled(k) <=> RLe(RInt(row'.low), ladders[k].buy_price))]_vars

\* C11 amended: in every bar step a pending level becomes active if and only
\* if the bar's low is at or below its buy_price and the cash left when the
\* level is reached covers quantity * buy_price plus fee; a pending level
\* whose buy_price is below the bar's low stays pending.
C11_BuyIffLowReachedAndAffordable ==
    [][BarStep =>
        \A k \in 1..Len(ladders) :
            ladders[k].status = "pending" =>
                /\ BuyFilled(k) <=>
                      (RLe(RInt(row'.low), ladders[k].buy_price) /\ CashCovers(k))
                /\ RLt(ladders[k].buy_price, RInt(row'.low)) =>
                      ladders'[k].status = "pending"]_vars

\* a bar has bought one level and left another, priced below its low, pending
C11_Witness ==
    /\ mode = "backtest"
    /\ \E k, j \in 1..Len(ladders) :
          /\ <<k, "pending", "active">> \in status_moves
          /\ RLe(RInt(row.low), ladders[k].buy_price)
          /\ ladders[j].status = "pending"
          /\ RLt(ladders[j].buy_price, RInt(row.low))

\* quantity * sell_price less the 0.1 % fee of the sell leg
SellLegNet(l) ==
    RSub(RMul(l.btc_amount, l.sell_price),
         RMul(RMul(l.btc_amount, l.sell_price), Rat(1, 1000)))

\* the cash after a step: the cash left by its buys plus the net revenue of
\* the levels it sold, up to list position k
RECURSIVE CashAfterSells(_, _, _, _)
CashAfterSells(ls, cash, moves, k) ==
    IF k = 0 THEN CashWhenReached(ls, cash, moves, Len(ls) + 1)
    ELSE LET c == CashAfterSells(ls, cash, moves, k - 1)
         IN  IF <<k, "active", "closed">> \in moves
             THEN RAdd(c, SellLegNet(ls[k]))
             ELSE c

\* the level at list position k holds an open position when the sell loop
\* of the step runs
ActiveAtSell(k) == ladders[k].status = "active" \/ BuyFilled(k)

\* indices of the entries of a log about the level at list position k
EntriesOf(log, k) == {i \in 1..Len(log) : log[i].level = ladders[k].level}

\* C12: in a bar step a level holding an open position is closed if and
\* only if the bar's high is at or above its sell_price; every such sale adds
\* its net revenue to the cash, removes the open position and appends one
\* Trade of that level, so a level bought in one bar and sold in the same or
\* a later bar has exactly one Trade, whose profit is (sell_price -
\* buy_price) * quantity less the fees of the two legs.
C12_SellIffHighReached ==
    [][BarStep =>
        /\ \A k \in 1..Len(ladders) :
             /\ ActiveAtSell(k) =>
                  (SellFilled(k) <=> RGe(RInt(row'.high), ladders[k].sell_price))
             /\ SellFilled(k) =>
                  /\ ladders'[k].status = "closed"
                  /\ \A i \in 1..Len(active_ladders') : active_ladders'[i].ladder # k
                  /\ Cardinality(EntriesOf(trades', k)) = 1
                  /\ Cardinality(EntriesOf(trades, k)) = 0
                  /\ \A i \in EntriesOf(trades', k) :
                       /\ trades'[i].sell_time = row'.timestamp
                       /\ trades'[i].profit =
                            RSub(RMul(RSub(ladders[k].sell_price, ladders[k].buy_price),
                                      ladders[k].btc_amount),
                                 RMul(RMul(RAdd(ladders[k].sell_price,
                                                ladders[k].buy_price),
                                           ladders[k].btc_amount), Rat(1, 1000)))
             /\ (ActiveAtSell(k) /\ ~SellFilled(k)) =>
                  /\ ladders'[k].status = "active"
                  /\ Cardinality({i \in 1..Len(active_ladders') :
                                     active_ladders'[i].ladder = k}) = 1
                  /\ EntriesOf(trades', k) = EntriesOf(trades, k)
        /\ Len(trades') =
             Len(trades) + Cardinality({k \in 1..Len(ladders) : SellFilled(k)})
        /\ capital' = CashAfterSells(ladders, capital, status_moves', Len(ladders))]_vars

\* a level bought in one bar has been sold by a later one
C12_Witness ==
    /\ mode = "backtest"
    /\ \E k \in 1..Len(ladders) :
          /\ <<k, "active", "closed">> \in status_moves
          /\ <<k, "pending", "active">> \notin status_moves
          /\ RGe(RInt(row.high), ladders[k].sell_price)
          /\ \E i \in EntriesOf(trades, k) : trades[i].buy_time < trades[i].sell_time

\* C13: in a bar step the buys are decided before the sells: a pending level
\* is bought and sold by the same step exactly when the bar's low is at or
\* below its buy_price, the cash left by the earlier buys of the step (the
\* proceeds of the step's sales not counted) covers its cost, and the bar's
\* high is at or above its sell_price; no level is sold unless it was active
\* before the step or bought by it.
C13_BuyThenSellWithinBar ==
    [][BarStep =>
        /\ \A k \in 1..Len(ladders) :
             /\ ladders[k].status = "pending" =>
                  ((BuyFilled(k) /\ ladders'[k].status = "closed") <=>
                      /\ RLe(RInt(row'.low), ladders[k].buy_price)
                      /\ CashCovers(k)
                      /\ RGe(RInt(row'.high), ladders[k].sell_price))
             /\ ladders'[k].status = "closed" =>
                  ladders[k].status = "closed" \/ ActiveAtSell(k)
        /\ \A m \in status_moves' : m[3] = "closed" => m[2] = "active"
        /\ \A i \in 1..Len(trades') :
             i > Len(trades) =>
                \E k \in 1..Len(ladders) :
                    /\ ladders[k].level = trades'[i].level
                    /\ ActiveAtSell(k)
                    /\ BuyFilled(k) => trades'[i].buy_time = row'.timestamp]_vars

\* a bar step has bought and sold the same level
C13_Witness ==
    /\ mode = "backtest"
    /\ \E k \in 1..Len(ladders) :
          /\ <<k, "pending", "active">> \in status_moves
          /\ <<k, "active", "closed">> \in status_moves
          /\ RLe(RInt(row.low), ladders[k].buy_price)
          /\ RGe(RInt(row.high), ladders[k].sell_price)
          /\ \E i \in EntriesOf(trades, k) : trades[i].buy_time = trades[i].sell_time

\* the step in which run() prices the ladders
StartStep == mode = "backtest" /\ bt_pc = "init" /\ bt_pc' = "running"

\* C14: a backtest run prices the ladders once, when it starts and from the
\* close of the first row; the first bar replayed is that row, and no later
\* step of the run changes anything of a level but its status.
C14_PricedOnceFromFirstClose ==
    [][/\ StartStep =>
            /\ ladders' = update_prices(ladders, config, row'.close)
            /\ \A k \in 1..Len(ladders) :
                 /\ ladders'[k].buy_price =
                      RMul(RInt(row'.close), ladders[k].buy_price_multiplier)
                 /\ ladders'[k].sell_price =
                      RMul(RInt(row'.close), ladders[k].sell_price_multiplier)
       /\ (BarStep /\ Len(portfolio_value) = 0) => row' = row
       /\ (mode = "backtest" /\ ~StartStep) =>
            /\ Len(ladders') = Len(ladders)
            /\ \A k \in 1..Len(ladders) :
                 [ladders'[k] EXCEPT !.status = ladders[k].status] = ladders[k]]_vars

\* bars closing away from the first close have been replayed, levels have
\* filled, and every level still carries the prices of the first close
C14_Witness ==
    /\ mode = "backtest"
    /\ Len(portfolio_value) >= 2
    /\ RInt(row.close) # current_price
    /\ RGt(current_price, Zero)
    /\ \E k \in 1..Len(ladders) : ladders[k].status # "pending"
    /\ \A k \in 1..Len(ladders) :
          /\ ladders[k].buy_price = RMul(current_price, ladders[k].buy_price_multiplier)
          /\ ladders[k].btc_amount # Absent

\* the bar of the step signals a buy of the pending level at list position k
\* that the cash left when the level is reached does not cover
Unaffordable(k) ==
    /\ ladders[k].status = "pending"
    /\ RLe(RInt(row'.low), ladders[k].buy_price)
    /\ ladders[k].btc_amount # Absent
    /\ RLt(CashWhenReached(ladders, capital, status_moves', k), BuyLegCost(ladders[k]))

\* C15: a bar step that signals a buy the cash does not cover skips that
\* level and raises nothing: the level stays pending without an open position
\* or a trade, the cash changes by the other levels' fills only, the levels
\* after it are still decided on their own trigger and cost, and the step
\* ends with its snapshot so that the run goes on.
C15_InsufficientCashSkips ==
    [][BarStep =>
        \A k \in 1..Len(ladders) :
            Unaffordable(k) =>
                /\ bt_pc' = "running"
                /\ exception' = "none"
                /\ Len(portfolio_value') = Len(portfolio_value) + 1
                /\ ladders'[k] = ladders[k]
                /\ \A m \in status_moves' : m[1] # k
                /\ \A i \in 1..Len(active_ladders') : active_ladders'[i].ladder # k
                /\ EntriesOf(trades', k) = EntriesOf(trades, k)
                /\ capital' = CashAfterSells(ladders, capital, status_moves', Len(ladders))
                /\ CashWhenReached(ladders, capital, status_moves', k + 1)
                     = CashWhenReached(ladders, capital, status_moves', k)
                /\ \A j \in (k + 1)..Len(ladders) :
                     ladders[j].status = "pending" =>
                        (BuyFilled(j) <=>
                            (RLe(RInt(row'.low), ladders[j].buy_price) /\ CashCovers(j)))]_vars

\* the last bar signalled a buy of a level that is still pending because the
\* cash did not cover it, and the run goes on
C15_Witness ==
    /\ mode = "backtest"
    /\ bt_pc = "running"
    /\ Len(portfolio_value) > 0
    /\ portfolio_value[Len(portfolio_value)].cash = capital
    /\ \E k \in 1..Len(ladders) :
          /\ ladders[k].status = "pending"
          /\ ladders[k].btc_amount # Absent
          /\ RLe(RInt(row.low), ladders[k].buy_price)
          /\ \A i \in 1..Len(active_ladders) : active_ladders[i].ladder # k

\* the arithmetic of a logged Trade, but for its roi: the trade carries the
\* prices and the quantity of its level, its cost is quantity * buy_price
\* plus the 0.1 % buy fee, its revenue quantity * sell_price less the 0.1 %
\* sell fee, and its profit is revenue less cost
TradeArithmetic(t) ==
    /\ \E k \in 1..Len(ladders) :
          /\ ladders[k].level = t.level
          /\ ladders[k].buy_price = t.buy_price
          /\ ladders[k].sell_price = t.sell_price
          /\ ladders[k].btc_amount = t.quantity
    /\ t.cost = RAdd(RMul(t.quantity, t.buy_price),
                     RMul(Rat(1, 1000), RMul(t.quantity, t.buy_price)))
    /\ t.revenue = RSub(RMul(t.quantity, t.sell_price),
                        RMul(Rat(1, 1000), RMul(t.quantity, t.sell_price)))
    /\ t.profit = RSub(t.revenue, t.cost)

\* C16 as stated: every Trade of the backtest has cost = quantity * buy_price
\* + buy fee, revenue = quantity * sell_price - sell fee, profit = revenue -
\* cost and roi = profit / cost, both fees being 0.001 of their leg.
C16_TradeArithmeticRoiFraction ==
    \A i \in 1..Len(trades) :
        /\ TradeArithmetic(trades[i])
        /\ trades[i].roi = RDiv(trades[i].profit, trades[i].cost)

\* C16 amended: the same, with roi = profit / cost * 100, a percentage.
C16_TradeArithmeticRoiPercent ==
    \A i \in 1..Len(trades) :
        /\ TradeArithmetic(trades[i])
        /\ trades[i].roi = RMul(RDiv(trades[i].profit, trades[i].cost), RInt(100))

\* the backtest has logged a trade with a profit
C16_Witness ==
    /\ mode = "backtest"
    /\ \E i \in 1..Len(trades) :
          /\ RGt(trades[i].profit, Zero)
          /\ RGt(trades[i].roi, One)

\* quantity * close summed over the levels that are active, up to list
\* position k
RECURSIVE HeldValue(_, _, _)
HeldValue(ls, k, close) ==
    IF k = 0 THEN Zero
    ELSE IF ls[k].status = "active"
         THEN RAdd(HeldValue(ls, k - 1, close), RMul(ls[k].btc_amount, close))
         ELSE HeldValue(ls, k - 1, close)

\* C17: the snapshot a bar step appends carries the bar's timestamp, the cash
\* after the bar's buys and sells, as positions_value the sum over the
\* positions still open of quantity * the bar's close, and as total_value
\* cash + positions_value; that sum holds of every snapshot of the sequence.
C17_SnapshotValues ==
    [][BarCompleted =>
        /\ Len(portfolio_value') = Len(portfolio_value) + 1
        /\ LET s == portfolio_value'[Len(portfolio_value')]
           IN  /\ s.timestamp = row'.timestamp
               /\ s.cash = capital'
               /\ s.cash = CashAfterSells(ladders, capital, status_moves', Len(ladders))
               /\ s.positions_value = HeldValue(ladders', Len(ladders'), RInt(row'.close))
               /\ \A k \in 1..Len(ladders') :
                    ladders'[k].status = "active" <=>
                        \E i \in 1..Len(active_ladders') :
                            /\ active_ladders'[i].ladder = k
                            /\ active_ladders'[i].quantity = ladders'[k].btc_amount
        /\ \A i \in 1..Len(portfolio_value') :
             portfolio_value'[i].total_value =
                RAdd(portfolio_value'[i].cash, portfolio_value'[i].positions_value)]_vars

\* the last snapshot values an open position at a close away from the
\* first close
C17_Witness ==
    /\ mode = "backtest"
    /\ Len(portfolio_value) > 1
    /\ Len(active_ladders) > 0
    /\ RInt(row.close) # current_price
    /\ RGt(portfolio_value[Len(portfolio_value)].positions_value, Zero)
    /\ portfolio_value[Len(portfolio_value)].total_value # capital

\* the sequence old is an initial part of the sequence new
IsPrefix(old, new) ==
    /\ Len(old) <= Len(new)
    /\ \A i \in 1..Len(old) : new[i] = old[i]

\* C18: the trade log and the snapshot sequence only grow at their end:
\* every step leaves the old sequences as prefixes of the new ones, a bar
\* step that completes appends exactly one snapshot, that of its bar, and no
\* other step appends a snapshot or a trade.
C18_AppendOnly ==
    [][/\ IsPrefix(trades, trades')
       /\ IsPrefix(portfolio_value, portfolio_value')
       /\ BarCompleted =>
            /\ Len(portfolio_value') = Len(portfolio_value) + 1
            /\ portfolio_value'[Len(portfolio_value')].timestamp = row'.timestamp
            /\ \A i \in (Len(trades) + 1)..Len(trades') :
                 trades'[i].sell_time = row'.timestamp
       /\ ~BarCompleted =>
            /\ portfolio_value' = portfolio_value
            /\ trades' = trades]_vars

\* three bars have been replayed and trades of two bars are in the log
C18_Witness ==
    /\ mode = "backtest"
    /\ Len(portfolio_value) = 3
    /\ \E i, j \in 1..Len(trades) :
          /\ i < j
          /\ trades[i].sell_time < trades[j].sell_time
          /\ portfolio_value[1].timestamp = trades[i].sell_time
          /\ portfolio_value[3].timestamp = trades[j].sell_time

\* run() fails before it has read a row: the DataFrame is empty
EmptyDataStep == mode = "backtest" /\ bt_pc = "init" /\ bt_pc' = "raised"

\* C19: a run on an empty bar sequence fails with EmptyDataError and changes
\* nothing: no trade, no snapshot, no ladder status or price and no cash.
C19_EmptyDataError ==
    [][EmptyDataStep =>
        /\ exception' = "EmptyDataError"
        /\ UNCHANGED <<ladders, capital, active_ladders, trades, portfolio_value>>]_vars

\* C20: a run never replays bars out of chronological order: the bars it has
\* processed, one snapshot each, have ascending timestamps unless the run
\* has failed with OrderingError.
C20_OrderingError ==
    \/ exception = "OrderingError"
    \/ \A i \in 1..(Len(portfolio_value) - 1) :
          portfolio_value[i].timestamp <= portfolio_value[i + 1].timestamp

----------------------------------------------------------------------------
(* Properties of the strategy's pricing, queries and reset.                *)

\* the fields update_prices derives from the reference price
Derived(l) == <<l.buy_price, l.sell_price, l.usdt_cost, l.btc_amount>>

\* the level with its derived fields taken from another level
WithDerivedOf(l, other) ==
    [l EXCEPT !.buy_price = other.buy_price, !.sell_price = other.sell_price,
              !.usdt_cost = other.usdt_cost, !.btc_amount = other.btc_amount]

\* a step that prices the ladders: only update_prices writes a derived field
PricingStep == \E k \in 1..Len(ladders) : Derived(ladders'[k]) # Derived(ladders[k])

\* C21: a step that changes a derived field of a level (a call of
\* update_prices) keeps the number and the order of the levels and, of every
\* level, the status, the level id, the weight, the gaps, the multipliers
\* and the units, whatever the statuses are.
C21_UpdatePricesFrame ==
    [][(Len(ladders) > 0 /\ Len(ladders') > 0 /\ PricingStep) =>
        /\ Len(ladders') = Len(ladders)
        /\ \A k \in 1..Len(ladders) :
             /\ WithDerivedOf(ladders'[k], ladders[k]) = ladders[k]
             /\ ladders'[k].status = ladders[k].status
             /\ ladders'[k].level = -k]_vars

\* update_prices has repriced the ladders at 0 after a level was bought: the
\* level is still active and keeps the size of the earlier pricing
C21_Witness ==
    /\ mode = "live"
    /\ current_price = Zero
    /\ \E k \in 1..Len(ladders) :
          /\ ladders[k].status = "active"
          /\ ladders[k].buy_price = Zero
          /\ ladders[k].btc_amount # Absent

\* C22: a call of update_prices with a price that is not positive is
\* rejected and changes no level: a step that sets the reference price to a
\* value <= 0 leaves every buy_price, sell_price, usdt_cost, btc_amount and
\* status as it was.
C22_NonPositivePriceRejected ==
    [][(current_price' # current_price /\ current_price' # Absent
           /\ RLe(current_price', Zero)) =>
        ladders' = ladders]_vars

\* C23: once the ladders are priced, get_pending_ladders returns no level
\* with a buy_price or sell_price <= 0 or without a position size, and the
\* backtest never evaluates such a level (it never fails on a level's
\* missing btc_amount).
C23_UnusableLevelsExcluded ==
    /\ current_price # Absent =>
          \A j \in 1..Len(get_pending_ladders(ladders)) :
              LET l == ladders[get_pending_ladders(ladders)[j]]
              IN  /\ RGt(l.buy_price, Zero)
                  /\ RGt(l.sell_price, Zero)
                  /\ l.btc_amount # Absent
    /\ exception # "KeyError"

\* C24: no strategy is built from a configuration with ladder_count <= 0,
\* base_gap <= 0 or fewer weights than ladder_count: every strategy that
\* exists was built from a configuration free of the three faults.
C24_ConfigError ==
    /\ config.ladders > 0
    /\ RGt(config.base_gap, Zero)
    /\ Len(config.fibonacci) >= config.ladders

\* the sequence of list positions q is strictly ascending and holds exactly
\* the positions of the levels in status s
ExactlyInOrder(q, s) ==
    /\ \A i, j \in 1..Len(q) : i < j => q[i] < q[j]
    /\ {q[i] : i \in 1..Len(q)} = {k \in 1..Len(ladders) : ladders[k].status = s}

\* C25: get_pending_ladders returns exactly the pending levels, shallowest
\* first, and get_active_ladders exactly the active levels; a strategy that
\* has not traded yet has every level pending and none active.
C25_PendingAndActiveQueries ==
    /\ ExactlyInOrder(get_pending_ladders(ladders), "pending")
    /\ ExactlyInOrder(get_active_ladders(ladders), "active")
    /\ \A i \in 1..Len(get_pending_ladders(ladders)) :
          ladders[get_pending_ladders(ladders)[i]].level = -get_pending_ladders(ladders)[i]
    /\ (bt_pc = "init" /\ orders_created = 0) =>
          /\ Len(get_pending_ladders(ladders)) = Len(ladders)
          /\ Len(get_active_ladders(ladders)) = 0

\* the shallower level is active while the deeper one is pending
C25_Witness ==
    /\ Len(ladders) = 2
    /\ ladders[1].status = "active"
    /\ ladders[2].status = "pending"
    /\ get_pending_ladders(ladders) = <<2>>
    /\ get_active_ladders(ladders) = <<1>>

\* C26: all_ladders_closed() is true exactly when no level is active and at
\* least one level is closed; it is false when every level is pending and
\* false when a level is active.
C26_AllLaddersClosed ==
    /\ all_ladders_closed(ladders) <=>
          /\ \A k \in 1..Len(ladders) : ladders[k].status # "active"
          /\ \E k \in 1..Len(ladders) : ladders[k].status = "closed"
    /\ (\A k \in 1..Len(ladders) : ladders[k].status = "pending") =>
          ~all_ladders_closed(ladders)
    /\ (\E k \in 1..Len(ladders) : ladders[k].status = "active") =>
          ~all_ladders_closed(ladders)

\* a cycle is complete although a level never traded: one level is closed,
\* the other pending
C26_Witness ==
    /\ mode = "live"
    /\ all_ladders_closed(ladders)
    /\ \E k \in 1..Len(ladders) : ladders[k].status = "pending"
    /\ \E k \in 1..Len(ladders) : ladders[k].status = "closed"

\* a call of reset_ladders that finds a closed level
ResetStep ==
    \E m \in status_moves' : m[2] = "closed" /\ m[3] = "pending"

\* C27: reset_ladders() turns every closed level into a pending one and
\* changes nothing else of any level; after it no level is closed,
\* all_ladders_closed() is false and a second reset_ladders() changes nothing.
C27_ResetLadders ==
    [][ResetStep =>
        /\ Len(ladders') = Len(ladders)
        /\ \A k \in 1..Len(ladders) :
             /\ ladders[k].status = "closed" =>
                  ladders'[k] = [ladders[k] EXCEPT !.status = "pending"]
             /\ ladders[k].status # "closed" => ladders'[k] = ladders[k]
             /\ ladders'[k].status # "closed"
        /\ ~all_ladders_closed(ladders')
        /\ reset_ladders(ladders') = ladders']_vars

\* reset_ladders has just re-armed a closed level while another level was
\* active, and that level is still active
C27_Witness ==
    /\ \E m \in status_moves : m[2] = "closed" /\ m[3] = "pending"
    /\ \E k \in 1..Len(ladders) :
          /\ ladders[k].status = "active"
          /\ ladders[k].btc_amount # Absent
    /\ \A k \in 1..Len(ladders) : ladders[k].status # "closed"

----------------------------------------------------------------------------
(* Properties of the Martingale calculator.                                *)

\* the cost, revenue and profit of a calculate_profit call d: cost =
\* buy_price * quantity * (1 + fee_rate), revenue = sell_price * quantity *
\* (1 - fee_rate), profit = revenue - cost
ProfitArithmetic(d) ==
    /\ d.result.total_buy_cost =
          RMul(RMul(d.buy_price, d.quantity), RAdd(One, d.fee_rate))
    /\ d.result.net_sell_revenue =
          RMul(RMul(d.sell_price, d.quantity), RSub(One, d.fee_rate))
    /\ d.result.profit = RSub(d.result.net_sell_revenue, d.result.total_buy_cost)

\* a call of calculate_profit changes nothing but its result
NoSideEffect ==
    UNCHANGED <<mode, seqVars, config, ladders, current_price, position_size, btVars, omVars,
                pfVars>>

\* C28 as stated: calculate_profit returns cost = buy_price * quantity *
\* (1 + fee_rate), revenue = sell_price * quantity * (1 - fee_rate), profit =
\* revenue - cost and roi = profit / cost, 0 when the cost is 0, and has no
\* side effect.
C28_ProfitRoiFraction ==
    [][profit_details' # profit_details =>
        /\ ProfitArithmetic(profit_details')
        /\ profit_details'.result.roi_percent =
              IF profit_details'.result.total_buy_cost = Zero THEN Zero
              ELSE RDiv(profit_details'.result.profit,
                        profit_details'.result.total_buy_cost)
        /\ NoSideEffect]_vars

\* C28 amended: the same, with roi = profit / cost * 100, a percentage
\* (returned as roi_percent), 0 when the cost is 0.
C28_ProfitRoiPercent ==
    [][profit_details' # profit_details =>
        /\ ProfitArithmetic(profit_details')
        /\ profit_details'.result.roi_percent =
              IF profit_details'.result.total_buy_cost = Zero THEN Zero
              ELSE RMul(RDiv(profit_details'.result.profit,
                             profit_details'.result.total_buy_cost), RInt(100))
        /\ NoSideEffect]_vars

\* the winning trade of the tests: 0.1 bought at 50000 and sold at 51000 with
\* the default fee gives a cost of 5005 and a profit of 89.9
C28_Witness ==
    /\ profit_details.fee_rate = Rat(1, 1000)
    /\ profit_details.buy_price = RInt(50000)
    /\ profit_details.sell_price = RInt(51000)
    /\ profit_details.quantity = Rat(1, 10)
    /\ profit_details.result.total_buy_cost = RInt(5005)
    /\ profit_details.result.profit = Rat(899, 10)
    /\ RGt(profit_details.result.roi_percent, One)

\* a round trip: calculate_profit(p, p, q) of a calculator with a fee
RoundTrip(d) == d.buy_price = d.sell_price /\ RGt(d.fee_rate, Zero)

\* C29 as stated: for every price p, quantity q and fee rate f > 0 the
\* profit of calculate_profit(p, p, q) is negative.
C29_RoundTripLoses ==
    RoundTrip(profit_details) => RLt(profit_details.result.profit, Zero)

\* C29 amended: for every price p > 0, quantity q > 0 and fee rate f > 0 the
\* profit of calculate_profit(p, p, q) is negative (it is 0 when p or q
\* is 0).
C29_PositiveRoundTripLoses ==
    RoundTrip(profit_details) =>
        IF RGt(profit_details.buy_price, Zero) /\ RGt(profit_details.quantity, Zero)
        THEN RLt(profit_details.result.profit, Zero)
        ELSE profit_details.result.profit = Zero

\* a round trip of 0.1 at 50000 with the 0.2 % fee has lost 20
C29_Witness ==
    /\ profit_details.fee_rate = Rat(2, 1000)
    /\ profit_details.buy_price = RInt(50000)
    /\ profit_details.sell_price = RInt(50000)
    /\ profit_details.quantity = Rat(1, 10)
    /\ profit_details.result.profit = RInt(-20)

\* C30: in the report of a backtest the running peak of total_value never
\* falls from one snapshot to the next, the maximum drawdown is at most 0,
\* and it is 0 exactly when total_value never falls from one snapshot to the
\* next.
C30_DrawdownBound ==
    (bt_pc = "done" /\ trades # <<>>) =>
        LET total_value == Column(portfolio_value, "total_value")
            n == Len(total_value)
            max_drawdown_pct == report.performance.max_drawdown_pct
        IN  /\ \A k \in 1..(n - 1) :
                 RLe(expanding_max(total_value, k), expanding_max(total_value, k + 1))
            /\ max_drawdown_pct = calculate_max_drawdown(portfolio_value)
            /\ RLe(max_drawdown_pct, Zero)
            /\ max_drawdown_pct = Zero
                 <=> \A k \in 1..(n - 1) : RLe(total_value[k], total_value[k + 1])

\* a report over a run whose total value fell below an earlier peak
C30_Witness ==
    /\ bt_pc = "done"
    /\ trades # <<>>
    /\ Len(portfolio_value) > 1
    /\ RLt(report.performance.max_drawdown_pct, Zero)

\* C31: a backtest that has replayed its bars without a single trade returns
\* a report that carries the flag no_trades = TRUE.
C31_NoTradesFlag ==
    (mode = "backtest" /\ bt_pc = "done" /\ trades = <<>>) =>
        /\ "no_trades" \in DOMAIN report
        /\ report["no_trades"] = TRUE

\* C38: while a backtest replays its bars, and when it has returned, the cash
\* is not negative and is the initial capital, less the costs of the
\* positions that are open, plus the profits of the trades in the log.
C38_CashIdentity ==
    (mode = "backtest" /\ bt_pc \in {"running", "done"}) =>
        LET costs == Column(active_ladders, "cost")
            profits == Column(trades, "profit")
        IN  /\ RGe(capital, Zero)
            /\ capital = RAdd(RSub(RInt(initial_capital),
                                   SeriesSum(costs, Len(costs))),
                              SeriesSum(profits, Len(profits)))

\* a bar has ended with a position open and a trade in the log
C38_Witness ==
    /\ mode = "backtest"
    /\ bt_pc = "running"
    /\ Len(portfolio_value) > 0
    /\ Len(active_ladders) > 0
    /\ Len(trades) > 0
    /\ capital # RInt(initial_capital)

\* C39: in a backtest a closed level stays closed, a level is bought only
\* while it is pending and has neither an open position nor a trade in the
\* log, and the log never holds more trades than the plan has levels.
C39_ClosedStaysClosed ==
    [][mode = "backtest" =>
        /\ \A k \in 1..Len(ladders) :
             /\ ladders[k].status = "closed" => ladders'[k].status = "closed"
             /\ BuyFilled(k) =>
                  /\ ladders[k].status = "pending"
                  /\ \A i \in 1..Len(trades) : trades[i].level # ladders[k].level
                  /\ \A i \in 1..Len(active_ladders) : active_ladders[i].ladder # k
        /\ Len(trades') <= Len(ladders')]_vars

\* every level has been traded and a later bar, whose low reaches the buy
\* price of a closed level, has brought no trade
C39_Witness ==
    /\ mode = "backtest"
    /\ bt_pc = "running"
    /\ Len(portfolio_value) = 3
    /\ Len(trades) = Len(ladders)
    /\ portfolio_value[3].cash = portfolio_value[2].cash
    /\ \A k \in 1..Len(ladders) : ladders[k].status = "closed"
    /\ RLe(RInt(row.low), ladders[1].buy_price)

\* Portfolio.initial_capital: the balance the portfolio was constructed with
portfolio_initial_capital == RInt(CHOOSE b \in StartBalances : TRUE)

\* the costs of the positions that are open
OpenCosts(pls) ==
    LET open == SelectSeq(pls, LAMBDA p : p.status = "open")
        costs == Column(open, "cost")
    IN  SeriesSum(costs, Len(costs))

\* C37: capital_allocated is the sum of the costs of the open positions and
\* capital_free + capital_allocated is initial_capital plus the profits in
\* trades_history, in every state and after every call; a close_position
\* call for a level without an open position changes nothing.
C37_PortfolioAccounting ==
    [][LET pls == PositionsOf(positions')
           profits == Column(trades_history', "profit")
       IN  /\ capital_allocated' = OpenCosts(pls)
           /\ RAdd(capital_free', capital_allocated') =
                 RAdd(portfolio_initial_capital, SeriesSum(profits, Len(profits)))
           /\ \A ladder_level \in PositionLevels, sell_price \in SellPrices,
                 quantity \in SoldQuantities :
                 (/\ ClosePositionCall(ladder_level, sell_price, quantity)
                  /\ OpenAt(PositionsOf(positions), ladder_level) = {})
                     => UNCHANGED pfVars]_vars

\* positions were added and one of them closed: one is open and one is
\* closed at a loss
C37_Witness ==
    /\ \E k \in 1..Len(PositionsOf(positions)) : PositionsOf(positions)[k].status = "open"
    /\ \E i \in 1..Len(trades_history) : RLt(trades_history[i].profit, Zero)
    /\ capital_allocated # Zero

\* price * quantity of the first j of the orders
RECURSIVE OrdersValue(_, _)
OrdersValue(orders, j) ==
    IF j = 0 THEN Zero
    ELSE RAdd(OrdersValue(orders, j - 1), RMul(orders[j].price, orders[j].qty))

EstimatedCost(ladder) == RMul(ladder.buy_price, ladder.btc_amount)

\* buy_price * btc_amount of the ladders of the orders that come before
\* the ladder at list position k
SpentBefore(orders, k) ==
    LET before == SelectSeq(orders, LAMBDA od : od.ladder < k)
        costs == [j \in 1..Len(before) |-> EstimatedCost(ladders[before[j].ladder])]
    IN  SeriesSum(costs, Len(costs))

\* a level for which the call creates an order if the balance allows it
Placeable(k, cp, refused) ==
    /\ ladders[k].status = "pending"
    /\ RLt(ladders[k].buy_price, RInt(cp))
    /\ ladders[k].btc_amount # Absent
    /\ k \notin refused
    /\ create_limit_order(1, "BUY", ladders[k].btc_amount, ladders[k].buy_price)
          # OrderRejected

\* C36: in every state of live trading a call of place_ladder_buy_orders,
\* whatever the market price, the balance reply and the refusals of the
\* exchange are, removes no order and adds BUY orders, in the order of the
\* levels, only for pending levels with a buy price below the current
\* price; what the added orders cost is at most the free balance the call
\* has read; without a readable balance nothing is added; and a level gets
\* its order whenever it can be placed and the balance left by the orders
\* before it covers it, whether or not the order of another level was
\* refused.
C36_PlaceLadderBuyOrders ==
    (mode = "live" /\ current_price # Absent) =>
        \A cp \in MarketPrices, balance \in BalanceReplies,
           refused \in SUBSET (1..Len(ladders)) :
        \A st \in {place_ladder_buy_orders(ladders, active_orders, orders_created,
                                           RInt(cp), balance, refused)} :
        \A new \in {SubSeq(st.orders, Len(active_orders) + 1, Len(st.orders))} :
           /\ SubSeq(st.orders, 1, Len(active_orders)) = active_orders
           /\ ~balance.ok => new = <<>>
           /\ \A j \in 1..Len(new) :
                /\ new[j].type = "BUY"
                /\ ladders[new[j].ladder].status = "pending"
                /\ RLt(ladders[new[j].ladder].buy_price, RInt(cp))
                /\ \A i \in 1..(j - 1) : new[i].ladder < new[j].ladder
           /\ RLe(OrdersValue(new, Len(new)), RInt(balance.free))
           /\ balance.ok =>
                \A k \in 1..Len(ladders) :
                   (\E j \in 1..Len(new) : new[j].ladder = k)
                      <=> /\ Placeable(k, cp, refused)
                          /\ RLe(RAdd(SpentBefore(new, k), EstimatedCost(ladders[k])),
                                 RInt(balance.free))

\* two calls: one has placed the order of the second level after the
\* exchange refused the order of the first, the other has placed the order
\* of the first level
C36_Witness ==
    /\ mode = "live"
    /\ Len(ladders) = 2
    /\ Len(active_orders) = 2
    /\ active_orders[1].type = "BUY"
    /\ active_orders[1].ladder = 2
    /\ active_orders[2].type = "BUY"
    /\ active_orders[2].ladder = 1

\* C40: in live trading, when an iteration of the trading loop has ended,
\* every level with status active has a SELL order in active_orders.
C40_ActiveLevelHasSellOrder ==
    mode = "live" =>
        \A k \in 1..Len(ladders) :
            ladders[k].status = "active" =>
                \E j \in 1..Len(active_orders) :
                    /\ active_orders[j].type = "SELL"
                    /\ active_orders[j].ladder = k

\* C32: in live trading a fill is applied once. The loop places one SELL
\* order for every BUY order a poll returns as filled, so every SELL order
\* placed in a step answers a BUY order of the same level that has left
\* active_orders in that step, and no later poll can return it again.
C32_FillAppliedOnce ==
    [][mode = "live" =>
          \A j \in 1..Len(active_orders') :
              (/\ active_orders'[j].type = "SELL"
               /\ active_orders'[j].orderId > orders_created)
                 => \E i \in 1..Len(active_orders) :
                       /\ active_orders[i].type = "BUY"
                       /\ active_orders[i].ladder = active_orders'[j].ladder
                       /\ active_orders[i].orderId \notin OrderIds(active_orders')]_vars

\* C33: in live trading a level whose SELL order has filled (status closed)
\* is re-armed: eventually a BUY order for that level is in active_orders
\* again.
C33_SoldLevelRearmed ==
    \A k \in 1..MaxLevels :
        (k <= Len(ladders) /\ ladders[k].status = "closed")
            ~> (\E j \in 1..Len(active_orders) :
                    /\ active_orders[j].type = "BUY"
                    /\ active_orders[j].ladder = k)

\* the tracked BUY orders of the strategy
TrackedBuys(orders) ==
    {j \in 1..Len(orders) :
        orders[j].strategy = strategy_name /\ orders[j].type = "BUY"}

\* C34: in sequential placement mode, under any interleaving of
\* place_next_sequential_order calls and fill polls, the strategy has at most
\* one tracked BUY order in active_orders.
C34_OneBuyOutstanding ==
    Cardinality(TrackedBuys(active_orders)) <= 1

\* the second buy order is outstanding, after the first one has filled and
\* left active_orders
C34_Witness ==
    /\ sequential_state.next_level_idx = 2
    /\ Cardinality(TrackedBuys(active_orders)) = 1
    /\ \E k \in 1..Len(ladders) : ladders[k].status = "active"

\* the price cp is in the proximity zone of ladder k: it is no more than
\* proximity_percent of itself above the ladder's buy price
WithinProximity(cp, k) ==
    RLe(RSub(cp, ladders[k].buy_price), RMul(proximity_percent, cp))

\* C35: in sequential placement mode, from every reachable state and for
\* every call of place_next_sequential_order: the call places an order only
\* as the first order of the strategy, or at a price above the next pending
\* level's buy price and within proximity_percent of it when the timer was
\* started at least delay_seconds ago; and a call at a price outside the
\* proximity zone of the next pending level leaves the timer cleared.  A
\* running timer was started by an earlier call of a strategy that has
\* placed its first order.
C35_SequentialDelay ==
    /\ sequential_state.approaching_since # None
          => /\ sequential_state.approaching_since <= now
             /\ sequential_state.next_level_idx >= 1
    /\ current_price # Absent =>
          \A cp \in SequentialPrices, balance \in BalanceReplies, refused \in BOOLEAN :
             \A st \in {place_next_sequential_order(ladders, active_orders,
                            orders_created, sequential_state, cp, now, balance,
                            refused)} :
             \A pending \in {get_pending_ladders(ladders)} :
                /\ st.created > orders_created
                      => \/ sequential_state.next_level_idx = 0
                         \/ /\ pending # <<>>
                            /\ RLt(ladders[pending[1]].buy_price, cp)
                            /\ WithinProximity(cp, pending[1])
                            /\ sequential_state.approaching_since # None
                            /\ now - sequential_state.approaching_since >= delay_seconds
                /\ (pending # <<>> /\ ~WithinProximity(cp, pending[1]))
                      => st.seq.approaching_since = None

\* a later order has been placed after the delay: the order of the second
\* level is outstanding and the clock has passed delay_seconds
C35_Witness ==
    /\ sequential_state.next_level_idx >= 2
    /\ now >= delay_seconds
    /\ \E j \in 1..Len(active_orders) :
          active_orders[j].type = "BUY" /\ active_orders[j].ladder = 2

====
